---- MODULE Spec2Model ----
(***************************************************************************)
(* State-machine model of app/parse.py: a Selenium scraper that walks a    *)
(* fixed table of listing pages, clicks "load more" until the control      *)
(* disappears, reads the product cards, visits every product's detail page *)
(* to click its swatch buttons, and writes one CSV file per listing.       *)
(*                                                                         *)
(* The browser and the web site are the environment: what a lookup or a    *)
(* click answers is chosen nondeterministically, within the bounds below.  *)
(* Texts are sequences of one-character strings so that replace(), split() *)
(* float() and int() are computed and not assumed.                         *)
(***************************************************************************)
EXTENDS Integers, Sequences, FiniteSets, TLC

\* ------------------------------------------------------------------ bounds
MaxInitCards == 1    \* cards a listing shows before any "load more" click
MaxClicks == 2       \* successful "load more" clicks a listing offers
MaxFailures == 2     \* failures the environment injects into one call of a function
MaxLate == 1         \* price updates the browser defers past the return of click()
MaxRunFailures == 1  \* failures the environment injects into a whole run
MaxButtons == 3      \* swatch buttons of a detail page (product_hdd_block_prices called alone)
MaxRecords == 2      \* records passed to write_products_to_csv called alone

\* --------------------------------------------------------- texts and parsing
Digits == <<"0", "1", "2", "3", "4", "5", "6", "7", "8", "9">>

IsDigit(c) == \E i \in 1..10 : Digits[i] = c

DigitVal(c) == (CHOOSE i \in 1..10 : Digits[i] = c) - 1

\* the characters float() and int() skip around a numeral, as far as a
\* string of this language can hold them (up to U+00FF): space, tab, line
\* feed, carriage return, form feed, vertical tab, next line U+0085 and the
\* no-break space U+00A0
Blanks == {" ", "\t", "\n", "\r", "\f", "", "", " "}

\* the characters str.split() splits at: the same and the four separators
\* U+001C..U+001F
Whitespace == Blanks \cup {"", "", "", ""}

IsSpace(c) == c \in Whitespace

\* str.replace(old, ""), old a single character: every occurrence is removed
ReplaceNone(s, old) == SelectSeq(s, LAMBDA c : c # old)

\* the value of a string of digits
DigitsVal(s) ==
    LET val[i \in 0..Len(s)] == IF i = 0 THEN 0 ELSE 10 * val[i - 1] + DigitVal(s[i])
    IN  val[Len(s)]

\* the result of a conversion: the value, or the class of the exception raised
Value(n) == [err |-> "none", val |-> n]
Error(e) == [err |-> e, val |-> 0]

\* the element of a set of one element: {F(x) : x \in {e}} names e once for
\* all its uses in F
The(S) == CHOOSE x \in S : TRUE

\* the text with the blanks around it removed, as float() and int() do
\* before they parse
Strip(s) ==
    LET ink == {i \in 1..Len(s) : s[i] \notin Blanks}
    IN  IF ink = {} THEN <<>>
        ELSE SubSeq(s, CHOOSE i \in ink : \A j \in ink : i <= j,
                       CHOOSE i \in ink : \A j \in ink : j <= i)

\* an optional sign in front of a numeral
HasSign(s) == s # <<>> /\ s[1] \in {"+", "-"}

IsNegative(s) == s # <<>> /\ s[1] = "-"

Unsigned(s) == IF HasSign(s) THEN Tail(s) ELSE s

Signed(neg, n) == IF neg THEN 0 - n ELSE n

\* digits with single underscores between them: "1_000", not "_1", "1_", "1__0"
IsDigitPart(s) ==
    /\ s # <<>>
    /\ \A i \in 1..Len(s) : IsDigit(s[i]) \/ s[i] = "_"
    /\ IsDigit(s[1]) /\ IsDigit(s[Len(s)])
    /\ \A i \in 1..(Len(s) - 1) : ~(s[i] = "_" /\ s[i + 1] = "_")

DropLeadingZeros(s) ==
    LET nz == {i \in 1..Len(s) : s[i] # "0"}
    IN  IF nz = {} THEN <<>> ELSE SubSeq(s, CHOOSE i \in nz : \A j \in nz : i <= j, Len(s))

DropTrailingZeros(s) ==
    LET nz == {i \in 1..Len(s) : s[i] # "0"}
    IN  IF nz = {} THEN <<>> ELSE SubSeq(s, 1, CHOOSE i \in nz : \A j \in nz : j <= i)

Zeros(n) == [i \in 1..n |-> "0"]

\* the characters of a text as one string
RECURSIVE Join(_)
Join(s) ==
    IF Len(s) = 0 THEN ""
    ELSE IF Len(s) = 1 THEN s[1]
    ELSE The({Join(l) \o Join(r) : l \in {SubSeq(s, 1, Len(s) \div 2)},
                                  r \in {SubSeq(s, Len(s) \div 2 + 1, Len(s))}})

\* the decimal digits of a natural number
RECURSIVE IntText(_)
IntText(n) == IF n < 10 THEN <<Digits[n + 1]>> ELSE Append(IntText(n \div 10), Digits[(n % 10) + 1])

\* numbers of at most MaxDigits digits are integers of the checker
MaxDigits == Len(IntText(2147483647)) - 1

ToLower(c) ==
    CASE c = "I" -> "i" [] c = "N" -> "n" [] c = "F" -> "f" [] c = "T" -> "t"
      [] c = "Y" -> "y" [] c = "A" -> "a" [] c = "E" -> "e" [] OTHER -> c

Lower(s) == [i \in 1..Len(s) |-> ToLower(s[i])]

\* the text before and after its first character of cs, and how many
\* characters of cs it has
SplitAt(s, cs) ==
    LET at == {i \in 1..Len(s) : s[i] \in cs}
        p == IF at = {} THEN Len(s) + 1 ELSE CHOOSE i \in at : \A j \in at : i <= j
    IN  [head |-> SubSeq(s, 1, p - 1), tail |-> SubSeq(s, p + 1, Len(s)),
         count |-> Cardinality(at)]

\* repr() of the float with significant digits d (no leading or trailing
\* zero), the first of them worth 10^adj: positional from 1e-04 up to 1e16,
\* with an exponent of at least two digits outside
Repr(neg, d, adj) ==
    LET sign == IF neg THEN <<"-">> ELSE <<>>
        body ==
            IF adj >= 16 \/ adj < 0 - 4
            THEN <<d[1]>> \o (IF Len(d) > 1 THEN <<".">> \o Tail(d) ELSE <<>>)
                 \o <<"e", IF adj < 0 THEN "-" ELSE "+">>
                 \o (LET e == IntText(IF adj < 0 THEN 0 - adj ELSE adj)
                     IN  IF Len(e) < 2 THEN <<"0">> \o e ELSE e)
            ELSE IF adj < 0 THEN <<"0", ".">> \o Zeros(0 - adj - 1) \o d
            ELSE IF Len(d) <= adj + 1 THEN d \o Zeros(adj + 1 - Len(d)) \o <<".", "0">>
            ELSE SubSeq(d, 1, adj + 1) \o <<".">> \o SubSeq(d, adj + 2, Len(d))
    IN  Join(sign \o body)

\* the exponent written as e: its value, cut off beyond MaxDigits digits,
\* far outside the range of a double
Exponent(e) ==
    LET digits == DropLeadingZeros(ReplaceNone(Unsigned(e), "_"))
    IN  Signed(IsNegative(e),
               IF Len(digits) > MaxDigits THEN 10 ^ MaxDigits ELSE DigitsVal(digits))

\* A natural number of any size is the sequence of its decimal digits, the
\* most significant first, <<>> for zero.
DigitValues(s) == [i \in 1..Len(s) |-> DigitVal(s[i])]

DigitChars(a) == [i \in 1..Len(a) |-> Digits[a[i] + 1]]

Natural(n) == IF n = 0 THEN <<>> ELSE DigitValues(IntText(n))

\* the digits of a * k + cin below 10^Len(a), and the carry above them
RECURSIVE MulAdd(_, _, _)
MulAdd(a, k, cin) ==
    IF Len(a) = 0 THEN [c |-> cin, out |-> <<>>]
    ELSE IF Len(a) = 1
    THEN [c |-> (a[1] * k + cin) \div 10, out |-> <<(a[1] * k + cin) % 10>>]
    ELSE The({The({[c |-> l.c, out |-> l.out \o r.out]
                     : l \in {MulAdd(SubSeq(a, 1, Len(a) \div 2), k, r.c)}})
                : r \in {MulAdd(SubSeq(a, Len(a) \div 2 + 1, Len(a)), k, cin)}})

\* a * k, k a number of the checker of at most 2^27
Times(a, k) == The({Natural(p.c) \o p.out : p \in {MulAdd(a, k, 0)}})

\* a * k^t
RECURSIVE TimesPower(_, _, _)
TimesPower(a, k, t) ==
    IF t = 0 THEN a
    ELSE IF t = 1 THEN Times(a, k)
    ELSE The({TimesPower(b, k, t - t \div 2) : b \in {TimesPower(a, k, t \div 2)}})

\* a * 2^t and a * 5^t
TimesPow2(a, t) == Times(TimesPower(a, 2 ^ 27, t \div 27), 2 ^ (t % 27))

TimesPow5(a, t) == Times(TimesPower(a, 5 ^ 11, t \div 11), 5 ^ (t % 11))

\* a < b, for digit sequences of one length
Less(a, b) == \E i \in 1..Len(a) : a[i] < b[i] /\ \A j \in 1..(i - 1) : a[j] = b[j]

\* a < b, for natural numbers
Below(a, b) == Len(a) < Len(b) \/ (Len(a) = Len(b) /\ Less(a, b))

\* a + 1 in the width of a, for a not all nines
SuccFixed(a) ==
    LET p == CHOOSE i \in 1..Len(a) : a[i] # 9 /\ \A j \in (i + 1)..Len(a) : a[j] = 9
    IN  [i \in 1..Len(a) |-> IF i < p THEN a[i] ELSE IF i = p THEN a[i] + 1 ELSE 0]

\* a + 1 and, for a above zero, a - 1
Succ(a) ==
    IF \A i \in 1..Len(a) : a[i] = 9 THEN <<1>> \o [i \in 1..Len(a) |-> 0]
    ELSE SuccFixed(a)

Pred(a) ==
    LET p == CHOOSE i \in 1..Len(a) : a[i] # 0 /\ \A j \in (i + 1)..Len(a) : a[j] = 0
        b == [i \in 1..Len(a) |-> IF i < p THEN a[i] ELSE IF i = p THEN a[i] - 1 ELSE 9]
    IN  IF b[1] = 0 THEN Tail(b) ELSE b

\* A double is m * 2^e with m below 2^53 and e from MinExp2 to MaxExp2; m is
\* at least 2^52 unless e is MinExp2 (the subnormals). 15 significant
\* decimal digits survive the rounding to a double in the normal range, 17
\* tell any two doubles apart.
MANT_DIG == 53
MinExp2 == 0 - 1074
MaxExp2 == 971
DBL_DIG == 15
DECIMAL_DIG == 17
Two52 == TimesPow2(<<1>>, MANT_DIG - 1)
Two53 == TimesPow2(<<1>>, MANT_DIG)

\* the decimal exponents between which a double is finite and not zero, and
\* those between which every double is normal
MaxExp10 == 308
MinExp10 == 0 - 324
MaxNormal10 == 307

\* the whole part and the digits after the point of digits * 10^x
Whole(digits, x) ==
    IF x >= 0 THEN digits \o [i \in 1..x |-> 0] ELSE SubSeq(digits, 1, Len(digits) + x)

Frac(digits, x) ==
    IF x >= 0 THEN <<>>
    ELSE IF Len(digits) + x >= 0 THEN SubSeq(digits, Len(digits) + x + 1, Len(digits))
    ELSE [i \in 1..(0 - x - Len(digits)) |-> 0] \o digits

\* digits * 10^x = v / 2^e, with e raised until the whole part of the
\* quotient is below 2^53: a half is 5/10
RECURSIVE Normal(_, _, _)
Normal(digits, x, e) ==
    IF Below(Whole(digits, x), Two53) THEN [digits |-> digits, x |-> x, e |-> e]
    ELSE The({Normal(half, x - 1, e + 1) : half \in {Times(digits, 5)}})

\* the quotient q.digits * 10^q.x rounded to a whole number, a tie to the
\* even one; 2^53 is 2^52 with the next exponent
Rounded(q) ==
    LET whole == Whole(q.digits, q.x)
        frac == Frac(q.digits, q.x)
        up == /\ frac # <<>>
              /\ \/ frac[1] > 5
                 \/ /\ frac[1] = 5
                    /\ \/ \E i \in 2..Len(frac) : frac[i] # 0
                       \/ whole # <<>> /\ whole[Len(whole)] % 2 = 1
        m == IF up THEN Succ(whole) ELSE whole
    IN  IF m = Two53 THEN [m |-> Two52, e |-> q.e + 1] ELSE [m |-> m, e |-> q.e]

\* the double nearest to d * 10^k (d the digits of a natural number above
\* zero, the first of them worth 10^MinExp10 to 10^MaxExp10), a tie to the
\* even one: m = <<>> for 0.0, e above MaxExp2 for inf. The exponent starts
\* below log2 of the value less 52, and not below MinExp2.
Double(d, k) ==
    LET low == ((Len(d) + k - 1) * 3321928) \div 1000000 - MANT_DIG
        e0 == IF low < MinExp2 THEN MinExp2 ELSE low
    IN  The({Rounded(Normal(q, IF e0 >= 0 THEN k - e0 ELSE k, e0))
               : q \in {IF e0 >= 0 THEN TimesPow5(d, e0) ELSE TimesPow2(d, 0 - e0)}})

\* The shortest decimal between lo and hi (the ends count when even), the
\* nearest to mid of that length and the even one of two as near; lo, mid
\* and hi are digits worth 10^x at their end. The result is its significant
\* digits and the power of 10 its first digit is worth.
ShortestIn(lo, mid, hi, even, x) ==
    LET w == Len(hi) + 1
        Pad(a) == [i \in 1..(w - Len(a)) |-> 0] \o a
        L == Pad(lo)
        X == Pad(mid)
        H == Pad(hi)
        first == w - Len(mid) + 1
        Cut(n) == IF first + n - 1 > w THEN w ELSE first + n - 1
        Inside(c) ==
            LET lp == SubSeq(L, 1, Len(c))
                hp == SubSeq(H, 1, Len(c))
            IN  /\ Less(lp, c) \/ (c = lp /\ even /\ \A i \in (Len(c) + 1)..w : L[i] = 0)
                /\ Less(c, hp) \/ (c = hp /\ (even \/ \E i \in (Len(c) + 1)..w : H[i] # 0))
        Pick(n) ==
            LET pre == SubSeq(X, 1, Cut(n))
                rest == SubSeq(X, Cut(n) + 1, w)
                up == /\ rest # <<>>
                      /\ \/ rest[1] > 5
                         \/ /\ rest[1] = 5
                            /\ \/ \E i \in 2..Len(rest) : rest[i] # 0
                               \/ pre[Len(pre)] % 2 = 1
                near == IF up THEN SuccFixed(pre) ELSE pre
                far == IF up THEN pre ELSE SuccFixed(pre)
            IN  IF Inside(near) THEN near ELSE IF Inside(far) THEN far ELSE <<>>
        n == CHOOSE i \in 1..DECIMAL_DIG : Pick(i) # <<>> /\ \A j \in 1..(i - 1) : Pick(j) = <<>>
        c == Pick(n)
        g == CHOOSE i \in 1..Len(c) : c[i] # 0 /\ \A j \in 1..(i - 1) : c[j] = 0
        z == CHOOSE i \in 1..Len(c) : c[i] # 0 /\ \A j \in (i + 1)..Len(c) : c[j] = 0
    IN  [digits |-> SubSeq(c, g, z), adj |-> w - g + x]

\* repr() of the double m * 2^e, m above zero: the shortest decimal that
\* float() reads back as this double. The decimals nearer to it than to its
\* neighbours go from half way to the one below (a quarter of the step down
\* when m is 2^52, where the step below is half the step above) to half way
\* to the one above; all three are whole multiples of 2^(e - 2).
Shortest(m, e) ==
    LET mid == Times(m, 4)
        lo == IF m = Two52 /\ e > MinExp2 THEN Pred(mid) ELSE Pred(Pred(mid))
        hi == Succ(Succ(mid))
        Exact(a) == IF e >= 2 THEN TimesPow2(a, e - 2) ELSE TimesPow5(a, 2 - e)
    IN  The({The({The({ShortestIn(l, x, h, m[Len(m)] % 2 = 0, IF e >= 2 THEN 0 ELSE e - 2)
                         : h \in {Exact(hi)}})
                    : x \in {Exact(mid)}})
               : l \in {Exact(lo)}})

\* the float with significant digits d (no leading or trailing zero), the
\* last of them worth 10^k: the whole number of hundredths it is,
\* <<"hundredths", repr>> when that number has more than MaxDigits digits,
\* <<"not in hundredths", repr>> when it is none
Shown(neg, d, k) ==
    IF k >= 0 - 2 /\ Len(d) + k + 2 <= MaxDigits
    THEN Value(Signed(neg, DigitsVal(d \o Zeros(k + 2))))
    ELSE IF k >= 0 - 2 THEN Value(<<"hundredths", Repr(neg, d, Len(d) + k - 1)>>)
    ELSE Value(<<"not in hundredths", Repr(neg, d, Len(d) + k - 1)>>)

\* the float of the numeral with significant digits d (no leading or
\* trailing zero) times 10^k: the double nearest to it, inf beyond the
\* range of a double, 0 below it. Up to DBL_DIG digits in the normal range
\* are the digits of the repr of that double.
Scaled(neg, d, k) ==
    LET adj == Len(d) + k - 1
        inf == Value(<<"not in hundredths", IF neg THEN "-inf" ELSE "inf">>)
    IN  IF d = <<>> \/ adj < MinExp10 THEN Value(0)
        ELSE IF adj > MaxExp10 THEN inf
        ELSE IF Len(d) <= DBL_DIG /\ adj <= MaxNormal10 /\ adj >= 0 - MaxNormal10
        THEN Shown(neg, d, k)
        ELSE The({IF b.m = <<>> THEN Value(0)
                  ELSE IF b.e > MaxExp2 THEN inf
                  ELSE The({Shown(neg, DigitChars(r.digits), r.adj - Len(r.digits) + 1)
                              : r \in {Shortest(b.m, b.e)}})
                    : b \in {Double(DigitValues(d), k)}})

\* the numeral with mantissa m (split at its point) and parts p (split at
\* its exponent mark): digits with an optional point and an optional
\* exponent, underscores between digits
Decimal(neg, m, p) ==
    LET ok == /\ p.count <= 1 /\ m.count <= 1
              /\ m.head = <<>> \/ IsDigitPart(m.head)
              /\ m.tail = <<>> \/ IsDigitPart(m.tail)
              /\ m.head # <<>> \/ m.tail # <<>>
              /\ p.count = 0 \/ IsDigitPart(Unsigned(p.tail))
        fdigits == ReplaceNone(m.tail, "_")
    IN  IF ~ok THEN Error("ValueError")
        ELSE The({The({Scaled(neg, d, Exponent(p.tail) - Len(fdigits) + (Len(lead) - Len(d)))
                          : d \in {DropTrailingZeros(lead)}})
                     : lead \in {DropLeadingZeros(ReplaceNone(m.head, "_") \o fdigits)}})

\* float(s): ValueError when Python rejects the text, else the value (see
\* Scaled; <<"not in hundredths", repr>> for inf and nan). Python's grammar:
\* optional blanks around; optional sign; "inf", "infinity" or "nan" in any
\* case, or a decimal numeral, rounded to the nearest double.
Float(s) ==
    The({LET neg == IsNegative(t)
             word == Lower(Unsigned(t))
         IN  IF word \in {<<"i", "n", "f">>, <<"i", "n", "f", "i", "n", "i", "t", "y">>}
             THEN Value(<<"not in hundredths", IF neg THEN "-inf" ELSE "inf">>)
             ELSE IF word = <<"n", "a", "n">> THEN Value(<<"not in hundredths", "nan">>)
             ELSE The({The({Decimal(neg, m, p) : m \in {SplitAt(p.head, {"."})}})
                          : p \in {SplitAt(Unsigned(t), {"e", "E"})}})
           : t \in {Strip(s)}})

\* str.split()[0]: the first whitespace-delimited token, <<>> when there is
\* none (Python raises IndexError)
FirstToken(s) ==
    LET starts == {i \in 1..Len(s) : ~IsSpace(s[i])}
    IN  IF starts = {} THEN <<>>
        ELSE LET b == CHOOSE i \in starts : \A j \in starts : i <= j
                 ends == {i \in b..Len(s) : i = Len(s) \/ IsSpace(s[i + 1])}
                 e == CHOOSE i \in ends : \A j \in ends : i <= j
             IN  SubSeq(s, b, e)

\* the most digits int() converts (sys.int_info.default_max_str_digits)
MAX_STR_DIGITS == 4300

\* int(s), base 10: optional blanks around, optional sign, digits with
\* underscores between them; ValueError for any other text and for more
\* than MAX_STR_DIGITS digits. The value is
\* the number, or <<"int", text>> when it has more than MaxDigits digits
Int10(s) ==
    The({IF \/ ~IsDigitPart(Unsigned(t))
            \/ Len(ReplaceNone(Unsigned(t), "_")) > MAX_STR_DIGITS
         THEN Error("ValueError")
         ELSE The({IF Len(d) <= MaxDigits THEN Value(Signed(IsNegative(t), DigitsVal(d)))
                   ELSE Value(<<"int", Join((IF IsNegative(t) THEN <<"-">> ELSE <<>>) \o d)>>)
                      : d \in {DropLeadingZeros(ReplaceNone(Unsigned(t), "_"))}})
           : t \in {Strip(s)}})

\* int(text.split()[0])
ParseReviews(text) ==
    The({IF token = <<>> THEN Error("IndexError") ELSE Int10(token)
           : token \in {FirstToken(text)}})

\* the price of a card or of a detail page: strip "$", parse as decimal
ParsePrice(text) == Float(ReplaceNone(text, "$"))

\* ----------------------------------------------------------------- URLs
\* A URL is its origin, the segments of its path and, for a product page, the
\* product number that ends the path (0 on every other page).
BASE_URL == [origin |-> "https://webscraper.io", path |-> <<"">>, item |-> 0]

\* the path with its "." segments dropped and each ".." taking the segment
\* before it along, as far as there is one
RECURSIVE RemoveDots(_, _)
RemoveDots(segs, out) ==
    IF segs = <<>> THEN out
    ELSE IF segs[1] = ".." THEN RemoveDots(Tail(segs), SubSeq(out, 1, Len(out) - 1))
    ELSE IF segs[1] = "." THEN RemoveDots(Tail(segs), out)
    ELSE RemoveDots(Tail(segs), Append(out, segs[1]))

\* urljoin(base, ref): the empty reference gives the base; a reference
\* starting with "/" replaces the path, any other one replaces the last
\* segment of the base path and loses the empty segments before its last
\* one; then the dot segments are resolved, a final one leaving a final "/".
\* The empty segment before the first "/" is a segment like any other: a
\* ".." at the root takes it, and the next segment stands in its place
Urljoin(base, ref) ==
    LET kept == IF base.item # 0 THEN base.path
                ELSE SubSeq(base.path, 1, Len(base.path) - 1)
        merged == IF ref.abs THEN ref.segs ELSE kept \o ref.segs
        inner == IF ref.item # 0 THEN Len(merged) ELSE Len(merged) - 1
        segs == IF ref.abs THEN merged
                ELSE SelectSeq(SubSeq(merged, 1, inner), LAMBDA g : g # "")
                     \o SubSeq(merged, inner + 1, Len(merged))
        resolved == RemoveDots(<<"">> \o segs, <<>>)
        closed == IF ref.item = 0 /\ segs # <<>> /\ segs[Len(segs)] \in {".", ".."}
                  THEN Append(resolved, "") ELSE resolved
        rooted == IF closed # <<>> /\ closed[1] = "" THEN Tail(closed) ELSE closed
    IN  IF ~ref.abs /\ ref.segs = <<>> /\ ref.item = 0 THEN base
        ELSE [origin |-> base.origin,
              path |-> IF rooted = <<>> /\ ref.item = 0 THEN <<"">> ELSE rooted,
              item |-> ref.item]

\* ------------------------------------------------------- exception classes
Parent ==
    [c \in {"NoSuchElementException", "ElementClickInterceptedException",
            "TimeoutException", "StaleElementReferenceException",
            "InvalidElementStateException", "ElementNotInteractableException",
            "WebDriverException", "ValueError", "UnicodeError", "UnicodeEncodeError",
            "LookupError", "IndexError", "OSError", "Exception"} |->
        CASE c = "ElementNotInteractableException" -> "InvalidElementStateException"
          [] c \in {"WebDriverException", "ValueError", "LookupError", "OSError"} -> "Exception"
          [] c = "IndexError" -> "LookupError"
          [] c = "UnicodeError" -> "ValueError"
          [] c = "UnicodeEncodeError" -> "UnicodeError"
          [] c = "Exception" -> "BaseException"
          [] OTHER -> "WebDriverException"]

RECURSIVE IsSubclass(_, _)
IsSubclass(c, d) ==
    \/ c = d
    \/ c \in DOMAIN Parent /\ IsSubclass(Parent[c], d)

\* ------------------------------------------------------------ the program's tables
\* Product: the dataclass fields, in declaration order
PRODUCT_FIELDS ==
    <<"title", "description", "price", "rating", "num_of_reviews", "additional_info">>

Rel(segs) == [abs |-> FALSE, segs |-> segs, item |-> 0]

\* get_all_products.pages_info, in insertion order
pages_info ==
    << [name |-> "home", path |-> Rel(<<"test-sites", "e-commerce", "more", "">>),
        paginate |-> FALSE],
       [name |-> "computers",
        path |-> Rel(<<"test-sites", "e-commerce", "more", "computers">>),
        paginate |-> FALSE],
       [name |-> "laptops",
        path |-> Rel(<<"test-sites", "e-commerce", "more", "computers", "laptops">>),
        paginate |-> TRUE],
       [name |-> "tablets",
        path |-> Rel(<<"test-sites", "e-commerce", "more", "computers", "tablets">>),
        paginate |-> TRUE],
       [name |-> "phones", path |-> Rel(<<"test-sites", "e-commerce", "more", "phones">>),
        paginate |-> FALSE],
       [name |-> "touch",
        path |-> Rel(<<"test-sites", "e-commerce", "more", "phones", "touch">>),
        paginate |-> TRUE] >>

Targets == 1..Len(pages_info)

\* url = urljoin(BASE_URL, info["path"])
TargetUrl(t) == Urljoin(BASE_URL, pages_info[t].path)

\* the clauses with the general WebDriverException clause written first
ExceptClausesShadowed ==
    << [class |-> "WebDriverException", level |-> "error", leaves |-> TRUE],
       [class |-> "NoSuchElementException", level |-> "info", leaves |-> TRUE],
       [class |-> "ElementClickInterceptedException", level |-> "warning", leaves |-> FALSE],
       [class |-> "TimeoutException", level |-> "error", leaves |-> FALSE],
       [class |-> "Exception", level |-> "error", leaves |-> TRUE] >>

\* the clauses with a break after the interception warning
ExceptClausesInterceptLeaves ==
    << [class |-> "NoSuchElementException", level |-> "info", leaves |-> TRUE],
       [class |-> "ElementClickInterceptedException", level |-> "warning", leaves |-> TRUE],
       [class |-> "TimeoutException", level |-> "error", leaves |-> FALSE],
       [class |-> "WebDriverException", level |-> "error", leaves |-> TRUE],
       [class |-> "Exception", level |-> "error", leaves |-> TRUE] >>

\* the clauses without the final except Exception
ExceptClausesNoCatchAll ==
    << [class |-> "NoSuchElementException", level |-> "info", leaves |-> TRUE],
       [class |-> "ElementClickInterceptedException", level |-> "warning", leaves |-> FALSE],
       [class |-> "TimeoutException", level |-> "error", leaves |-> FALSE],
       [class |-> "WebDriverException", level |-> "error", leaves |-> TRUE] >>

\* the except clauses of the pagination loop, in source order: the class a
\* clause catches, the level it logs at, and whether it ends with break
ExceptClauses ==
    << [class |-> "NoSuchElementException", level |-> "info", leaves |-> TRUE],
       [class |-> "ElementClickInterceptedException", level |-> "warning", leaves |-> FALSE],
       [class |-> "TimeoutException", level |-> "error", leaves |-> FALSE],
       [class |-> "WebDriverException", level |-> "error", leaves |-> TRUE],
       [class |-> "Exception", level |-> "error", leaves |-> TRUE] >>

\* the first clause that catches an exception of class e, 0 when none does
ClauseOf(e) ==
    LET hit == {i \in 1..Len(ExceptClauses) : IsSubclass(e, ExceptClauses[i].class)}
    IN  IF hit = {} THEN 0 ELSE CHOOSE i \in hit : \A j \in hit : i <= j

\* ------------------------------------------------------------ the web site
\* what find_element and click can raise besides their normal answers
LocateFailures == {"TimeoutException", "WebDriverException", "ValueError"}

ClickFailures ==
    {"ElementClickInterceptedException", "ElementNotInteractableException",
     "TimeoutException", "StaleElementReferenceException", "ValueError"}

NavFailures == {"TimeoutException", "WebDriverException"}

PriceA == <<"$", "1">>
PriceB == <<"$", "2", ".", "5">>
PriceShown == <<"$", "9", ".", "9", "9">>

\* the i-th product card of the listing at url, as the markup shows it
CardMarkup(url, i) ==
    [title |-> <<url.path, i>>,
     description |-> "text",
     price |-> <<"$", Digits[(i % 10) + 1], ".", "9", "9">>,
     stars |-> i % 6,
     reviews |-> <<Digits[(i % 10) + 1], " ", "r", "e", "v", "i", "e", "w", "s">>,
     href |-> [abs |-> TRUE, segs |-> <<"test-sites", "e-commerce", "more", "product">>,
               item |-> i]]

NoPage == [group |-> FALSE, buttons |-> <<>>, hasPrice |-> FALSE, price |-> <<>>]

\* the detail pages of the synthetic site of a whole run: product i has no
\* swatch group, one enabled and one disabled swatch, or a swatch but no price
SyntheticDetail(i) ==
    CASE i % 3 = 1 ->
           [group |-> FALSE, buttons |-> <<>>, hasPrice |-> TRUE, price |-> PriceShown]
      [] i % 3 = 2 ->
           [group |-> TRUE,
            buttons |-> << [value |-> "128", disabled |-> FALSE, price |-> PriceA],
                           [value |-> "256", disabled |-> TRUE, price |-> PriceB] >>,
            hasPrice |-> TRUE, price |-> PriceShown]
      [] OTHER ->
           [group |-> TRUE,
            buttons |-> << [value |-> "128", disabled |-> FALSE, price |-> PriceB] >>,
            hasPrice |-> FALSE, price |-> <<>>]

\* ------------------------------------------------------------------- state
VARIABLES
    entry,      \* the function that was called: get_all_products, get_page_products, ...
    pc,         \* the statement the script is at
    exc,        \* the class of the exception that left the entry function, or "none"
    excAt,      \* the statement that raised it
    session,    \* the browser session: "none", "open", "closed"
    opened,     \* sessions acquired so far
    ti,         \* index into pages_info of the target being scraped
    url,        \* get_page_products: url
    paginate,   \* get_page_products: paginate
    site,       \* the web site: cards and load-more clicks of a listing, detail pages
    loc,        \* browser: the URL of the page shown, "blank" before any navigation
    dom,        \* browser: the product cards of the page shown, in document order
    moreLeft,   \* browser: how many more clicks the load-more control is there for
    page,       \* browser: swatch group and price element of the page shown
    displayed,  \* browser: the text of the price element
    pending,    \* browser: a price update of a click not yet applied, or <<>>
    clicks,     \* completed clicks on the load-more control, for the current listing
    lookups,    \* lookups of the load-more control, for the current listing
    faults,     \* environment: failures it may still inject
    defers,     \* environment: price updates it may still defer
    log,        \* the log records emitted: <<level, statement or class logged for>>
    thrown,     \* classes raised inside the pagination loop of the current listing, in order
    cards,      \* get_page_products: product_soups
    ci,         \* position in product_soups
    card,       \* product_hdd_block_prices: product_soup
    products,   \* records built so far for the current listing
    prices,     \* product_hdd_block_prices: prices, a dict as its items in insertion order
    buttons,    \* product_hdd_block_prices: buttons
    bi,         \* position in buttons
    clicked,    \* swatch buttons clicked on the page shown, in order
    shown,      \* what each price read saw: <<button, displayed text, update still pending>>
    seen,       \* per target, the cards in the browser when the page content was read
    reads,      \* per target, how often the page content was read
    files,      \* the file system: name -> rows, for the files that exist
    handle,     \* the name of the file that is open for writing, or "none"
    handed,     \* the rows handed to the open file so far; those not in the file are in its buffer
    synced,     \* how much of handed is in the file, in half rows
    written,    \* names of the files opened for writing, in order
    wi          \* position in products while writing

browser == <<loc, dom, moreLeft, page, displayed, pending>>
call == <<url, paginate, cards, ci, card, products>>
swatch == <<prices, buttons, bi, clicked, shown>>
disk == <<files, handle, handed, synced, written, wi>>
run == <<entry, session, opened, ti, site, seen, reads>>
env == <<faults, defers>>
vars == <<pc, exc, excAt, log, thrown, clicks, lookups, browser, call, swatch, disk, run, env>>

\* the exception is caught around the target: what was parsed is written
\* and the loop goes on
RaiseIsolated(e, at) ==
    /\ exc' = e
    /\ excAt' = at
    /\ pc' = IF entry = "get_all_products" THEN "open_file" ELSE "raised"

\* an exception leaves the function at statement `at`
Raise(e, at) ==
    /\ exc' = e
    /\ excAt' = at
    /\ pc' = IF entry = "get_all_products" THEN "unwind" ELSE "raised"

Inject == faults > 0 /\ faults' = faults - 1

\* ------------------------------------------------ get_page_products (70-97)
\* the loader that enters the pagination loop whatever paginate says
PageGetAlways ==
    /\ pc = "get_page"
    /\ log' = Append(log, <<"info", "get_page">>)
    /\ loc' = url
    /\ dom' = [i \in 1..site.listing[url.path].cards |-> CardMarkup(url, i)]
    /\ moreLeft' = site.listing[url.path].more
    /\ page' = NoPage
    /\ displayed' = <<>>
    /\ pending' = <<>>
    /\ clicks' = 0
    /\ lookups' = 0
    /\ thrown' = <<>>
    /\ pc' = "find_more"
    /\ UNCHANGED <<exc, excAt, call, swatch, disk, run, env>>

\* logging.info(...); driver.get(url): the listing is shown
PageGet ==
    /\ pc = "get_page"
    /\ log' = Append(log, <<"info", "get_page">>)
    /\ loc' = url
    /\ dom' = [i \in 1..site.listing[url.path].cards |-> CardMarkup(url, i)]
    /\ moreLeft' = site.listing[url.path].more
    /\ page' = NoPage
    /\ displayed' = <<>>
    /\ pending' = <<>>
    /\ clicks' = 0
    /\ lookups' = 0
    /\ thrown' = <<>>
    /\ pc' = IF paginate THEN "find_more" ELSE "page_source"
    /\ UNCHANGED <<exc, excAt, call, swatch, disk, run, env>>

\* driver.get(url) raises: nothing around it catches
PageGetFails ==
    /\ pc = "get_page"
    /\ Inject
    /\ \E e \in NavFailures : Raise(e, "get_page")
    /\ log' = Append(log, <<"info", "get_page">>)
    /\ thrown' = <<>>
    /\ clicks' = 0
    /\ lookups' = 0
    /\ UNCHANGED <<defers, browser, call, swatch, disk, run>>

\* the try statement of the loop: an exception of class e is raised inside it
Handle(e) ==
    LET k == ClauseOf(e)
    IN  /\ thrown' = Append(thrown, e)
        /\ IF k = 0
           THEN Raise(e, pc) /\ UNCHANGED log
           ELSE /\ log' = Append(log, <<ExceptClauses[k].level, ExceptClauses[k].class>>)
                /\ pc' = IF ExceptClauses[k].leaves THEN "page_source" ELSE "find_more"
                /\ UNCHANGED <<exc, excAt>>

\* driver.find_element(By.CLASS_NAME, "ecommerce-items-scroll-more"): found
FindMore ==
    /\ pc = "find_more"
    /\ moreLeft > 0
    /\ lookups' = lookups + 1
    /\ pc' = "click_more"
    /\ UNCHANGED <<thrown, exc, excAt, log, clicks, browser, call, swatch, disk, run, env>>

\* a lookup that waits for the control for as long as it is not on the page
FindMoreAbsentWaits ==
    /\ pc = "find_more"
    /\ moreLeft = 0
    /\ UNCHANGED vars

\* the control is not on the page: NoSuchElementException
FindMoreAbsent ==
    /\ pc = "find_more"
    /\ moreLeft = 0
    /\ lookups' = lookups + 1
    /\ Handle("NoSuchElementException")
    /\ UNCHANGED <<clicks, browser, call, swatch, disk, run, env>>

\* the lookup fails otherwise
FindMoreFails ==
    /\ pc = "find_more"
    /\ Inject
    /\ lookups' = lookups + 1
    /\ \E e \in LocateFailures : Handle(e)
    /\ UNCHANGED <<defers, clicks, browser, call, swatch, disk, run>>

\* more_button.click(): the site appends the next card
ClickMore ==
    /\ pc = "click_more"
    /\ clicks' = clicks + 1
    /\ dom' = Append(dom, CardMarkup(loc, Len(dom) + 1))
    /\ moreLeft' = moreLeft - 1
    /\ pc' = "find_more"
    /\ UNCHANGED <<thrown, exc, excAt, log, lookups, loc, page, displayed, pending,
                   call, swatch, disk, run, env>>

\* the click fails
ClickMoreFails ==
    /\ pc = "click_more"
    /\ Inject
    /\ \E e \in ClickFailures : Handle(e)
    /\ UNCHANGED <<defers, clicks, lookups, browser, call, swatch, disk, run>>

\* BeautifulSoup(driver.page_source, ...).select(".thumbnail")
PageSource ==
    /\ pc = "page_source"
    /\ cards' = dom
    /\ ci' = 1
    /\ products' = <<>>
    /\ seen' = [seen EXCEPT ![ti] = dom]
    /\ reads' = [reads EXCEPT ![ti] = @ + 1]
    /\ pc' = "next_card"
    /\ UNCHANGED <<thrown, exc, excAt, log, clicks, lookups, browser, url, paginate, card,
                   swatch, disk, entry, session, opened, ti, site, env>>

\* a failed read of the page content, logged and taken for a page with no cards
PageSourceFailsSwallowed ==
    /\ pc = "page_source"
    /\ Inject
    /\ \E e \in NavFailures : log' = Append(log, <<"error", e>>)
    /\ cards' = <<>>
    /\ ci' = 1
    /\ products' = <<>>
    /\ pc' = "next_card"
    /\ UNCHANGED <<thrown, exc, excAt, defers, clicks, lookups, browser, url, paginate, card,
                   swatch, disk, run>>

\* driver.page_source raises
PageSourceFails ==
    /\ pc = "page_source"
    /\ Inject
    /\ \E e \in NavFailures : Raise(e, "page_source")
    /\ UNCHANGED <<thrown, defers, log, clicks, lookups, browser, call, swatch, disk, run>>

\* the cards selected anew from the page shown, once a detail page was visited
NextCardLive ==
    /\ pc = "next_card"
    /\ ci <= Len(cards)
    /\ cards' = IF loc = url THEN cards ELSE dom
    /\ IF ci <= Len(cards')
       THEN card' = cards'[ci] /\ pc' = "detail_get"
       ELSE card' = card /\ pc' = IF entry = "get_all_products" THEN "open_file" ELSE "done"
    /\ UNCHANGED <<thrown, exc, excAt, log, clicks, lookups, browser, url, paginate, ci,
                   products, swatch, disk, run, env>>

\* list comprehension of line 97: the next card, or return the records
NextCard ==
    /\ pc = "next_card"
    /\ ci <= Len(cards)
    /\ card' = cards[ci]
    /\ pc' = "detail_get"
    /\ UNCHANGED <<thrown, exc, excAt, log, clicks, lookups, browser, url, paginate, cards, ci,
                   products, swatch, disk, run, env>>

PageReturn ==
    /\ pc = "next_card"
    /\ ci > Len(cards)
    /\ pc' = IF entry = "get_all_products" THEN "open_file" ELSE "done"
    /\ UNCHANGED <<thrown, exc, excAt, log, clicks, lookups, browser, call, swatch, disk, run, env>>

\* ----------------------------------------- product_hdd_block_prices (35-54)
\* a mapping that keeps the first value stored under a key
DictSetKeepsFirst(d, k, v) ==
    IF \E i \in 1..Len(d) : d[i][1] = k THEN d ELSE Append(d, <<k, v>>)

\* a dict, as the sequence of its items in insertion order: d[k] = v
DictSet(d, k, v) ==
    IF \E i \in 1..Len(d) : d[i][1] = k
    THEN [i \in 1..Len(d) |-> IF d[i][1] = k THEN <<k, v>> ELSE d[i]]
    ELSE Append(d, <<k, v>>)

DictKeys(d) == {d[i][1] : i \in 1..Len(d)}

DictGet(d, k) == d[CHOOSE i \in 1..Len(d) : d[i][1] = k][2]

\* the function returns prices: to its caller, or out of the model
SwatchReturn == pc' = IF entry = "product_hdd_block_prices" THEN "done" ELSE "build_record"

\* the lookups and clicks without the try statement around them
SwatchHandleUncaught(e) == Raise(e, pc)

\* the try statement of lines 41-52: an exception of class e is raised inside it
SwatchHandle(e) ==
    IF IsSubclass(e, "NoSuchElementException")
    THEN SwatchReturn /\ UNCHANGED <<exc, excAt>>
    ELSE Raise(e, pc)

\* driver.get(urljoin(BASE_URL, href)): the detail page is shown; prices = {}
DetailGet ==
    /\ pc = "detail_get"
    /\ loc' = Urljoin(BASE_URL, card.href)
    /\ page' = site.detail[card.href.item]
    /\ displayed' = site.detail[card.href.item].price
    /\ pending' = <<>>
    /\ dom' = <<>>
    /\ moreLeft' = 0
    /\ prices' = <<>>
    /\ buttons' = <<>>
    /\ bi' = 0
    /\ clicked' = <<>>
    /\ shown' = <<>>
    /\ pc' = "find_swatches"
    /\ UNCHANGED <<thrown, exc, excAt, log, clicks, lookups, call, disk, run, env>>

DetailGetFails ==
    /\ pc = "detail_get"
    /\ Inject
    /\ \E e \in NavFailures : Raise(e, "detail_get")
    /\ UNCHANGED <<thrown, defers, log, clicks, lookups, browser, call, swatch, disk, run>>

\* driver.find_element(By.CLASS_NAME, "swatches"); swatches.find_elements(...)
FindSwatches ==
    /\ pc = "find_swatches"
    /\ page.group
    /\ buttons' = page.buttons
    /\ bi' = 1
    /\ pc' = "next_button"
    /\ UNCHANGED <<thrown, exc, excAt, log, clicks, lookups, browser, call, prices, clicked, shown,
                   disk, run, env>>

\* no swatch group: NoSuchElementException, caught, the empty dict is returned
FindSwatchesAbsent ==
    /\ pc = "find_swatches"
    /\ ~page.group
    /\ SwatchHandle("NoSuchElementException")
    /\ UNCHANGED <<thrown, log, clicks, lookups, browser, call, swatch, disk, run, env>>

FindSwatchesFails ==
    /\ pc = "find_swatches"
    /\ Inject
    /\ \E e \in NavFailures : SwatchHandle(e)
    /\ UNCHANGED <<thrown, defers, log, clicks, lookups, browser, call, swatch, disk, run>>

\* for button in buttons: exhausted, the dict is returned
ButtonsDone ==
    /\ pc = "next_button"
    /\ bi > Len(buttons)
    /\ SwatchReturn
    /\ UNCHANGED <<thrown, exc, excAt, log, clicks, lookups, browser, call, swatch, disk, run, env>>

\* the loop without the test of the disabled property
IsClickableAlways(button) == TRUE

\* if not button.get_property("disabled")
IsClickable(button) == ~button.disabled

\* a disabled button is passed over
SkipDisabled ==
    /\ pc = "next_button"
    /\ bi <= Len(buttons)
    /\ ~IsClickable(buttons[bi])
    /\ bi' = bi + 1
    /\ UNCHANGED <<thrown, pc, exc, excAt, log, clicks, lookups, browser, call, prices, buttons,
                   clicked, shown, disk, run, env>>

\* button.click(): the page updates the displayed price, before click()
\* returns or (defer) some time after it
ClickButton ==
    /\ pc = "next_button"
    /\ bi <= Len(buttons)
    /\ IsClickable(buttons[bi])
    /\ clicked' = Append(clicked, bi)
    /\ \E defer \in BOOLEAN :
          IF defer
          THEN /\ defers > 0
               /\ defers' = defers - 1
               /\ pending' = Append(pending, buttons[bi].price)
               /\ UNCHANGED displayed
          ELSE /\ displayed' = buttons[bi].price
               /\ pending' = <<>>
               /\ UNCHANGED defers
    /\ pc' = "read_price"
    /\ UNCHANGED <<thrown, exc, excAt, log, clicks, lookups, loc, dom, moreLeft, page, call,
                   prices, buttons, bi, shown, disk, run, faults>>

ClickButtonFails ==
    /\ pc = "next_button"
    /\ bi <= Len(buttons)
    /\ IsClickable(buttons[bi])
    /\ Inject
    /\ \E e \in ClickFailures : SwatchHandle(e)
    /\ UNCHANGED <<thrown, defers, log, clicks, lookups, browser, call, swatch, disk, run>>

\* the browser applies a deferred price update
BrowserApply ==
    /\ session = "open"
    /\ pending # <<>>
    /\ displayed' = Head(pending)
    /\ pending' = Tail(pending)
    /\ UNCHANGED <<thrown, pc, exc, excAt, log, clicks, lookups, loc, dom, moreLeft, page, call,
                   swatch, disk, run, env>>

\* prices[button.get_property("value")] =
\*     float(driver.find_element(By.CLASS_NAME, "price").text.replace("$", ""))
ReadPrice ==
    /\ pc = "read_price"
    /\ page.hasPrice
    /\ IF ParsePrice(displayed).err # "none"
       THEN /\ Raise(ParsePrice(displayed).err, "read_price")
            /\ UNCHANGED <<prices, bi, shown>>
       ELSE /\ prices' = DictSet(prices, buttons[bi].value, ParsePrice(displayed).val)
            /\ shown' = Append(shown, <<bi, displayed, pending # <<>> >>)
            /\ bi' = bi + 1
            /\ pc' = "next_button"
            /\ UNCHANGED <<exc, excAt>>
    /\ UNCHANGED <<thrown, log, clicks, lookups, browser, call, buttons, clicked, disk, run, env>>

\* the page has no price element: NoSuchElementException inside the same try
ReadPriceAbsent ==
    /\ pc = "read_price"
    /\ ~page.hasPrice
    /\ SwatchHandle("NoSuchElementException")
    /\ UNCHANGED <<thrown, log, clicks, lookups, browser, call, swatch, disk, run, env>>

ReadPriceFails ==
    /\ pc = "read_price"
    /\ Inject
    /\ \E e \in NavFailures : SwatchHandle(e)
    /\ UNCHANGED <<thrown, defers, log, clicks, lookups, browser, call, swatch, disk, run>>

\* --------------------------------------------- parse_single_product (57-67)
\* Product(...): the record of a card
ProductOf(c, hdd) ==
    [title |-> c.title,
     description |-> c.description,
     price |-> ParsePrice(c.price).val,
     rating |-> c.stars,
     num_of_reviews |-> ParseReviews(c.reviews).val,
     additional_info |-> [hdd_prices |-> hdd]]

BuildRecord ==
    /\ pc = "build_record"
    /\ IF ParsePrice(card.price).err # "none"
       THEN Raise(ParsePrice(card.price).err, "build_record") /\ UNCHANGED <<products, ci>>
       ELSE IF ParseReviews(card.reviews).err # "none"
       THEN Raise(ParseReviews(card.reviews).err, "build_record")
            /\ UNCHANGED <<products, ci>>
       ELSE /\ products' = Append(products, ProductOf(card, prices))
            /\ ci' = ci + 1
            /\ pc' = "next_card"
            /\ UNCHANGED <<exc, excAt>>
    /\ UNCHANGED <<thrown, log, clicks, lookups, browser, url, paginate, cards, card, swatch,
                   disk, run, env>>

\* -------------------------------------------- write_products_to_csv (100-106)
\* the row with price and rating in each other's place
AstupleSwapped(p) ==
    <<p.title, p.description, p.rating, p.price, p.num_of_reviews, p.additional_info>>

\* astuple(product): the field values in declaration order
Astuple(p) ==
    <<p.title, p.description, p.price, p.rating, p.num_of_reviews, p.additional_info>>

\* open(filename, "a"): an existing file keeps its rows
TruncateKeeps(fs, name) ==
    [n \in DOMAIN fs \cup {name} |-> IF n \in DOMAIN fs THEN fs[n] ELSE <<>>]

\* open(filename, "w"): the file is created or truncated
Truncate(fs, name) == [n \in DOMAIN fs \cup {name} |-> IF n = name THEN <<>> ELSE fs[n]]

FileName(t) == pages_info[t].name \o ".csv"

\* The file of open(filename, "w", ...) is buffered: what writerow hands it
\* is in its buffer first, and it is written to the file when the buffer is
\* full and when the file is closed, a buffer at a time and so without
\* regard to where a row ends. The rows of a file in the file system may
\* therefore end with a row of which only a leading part is there.
Fragment(row) == <<"fragment of", row>>

IsFragment(row) == Len(row) = 2 /\ row[1] = "fragment of"

\* the rows of a file that are all there
Complete(content) ==
    IF content # <<>> /\ IsFragment(content[Len(content)])
    THEN SubSeq(content, 1, Len(content) - 1) ELSE content

\* the leading part of the rows of text that ends after p half rows: p \div 2
\* rows, and a fragment of the next one when p is odd
Leading(text, p) ==
    SubSeq(text, 1, p \div 2)
    \o (IF p % 2 = 1 THEN <<Fragment(text[p \div 2 + 1])>> ELSE <<>>)

\* the rows of text after the first p half rows, the one cut at p with them
Held(text, p) == SubSeq(text, p \div 2 + 1, Len(text))

\* the buffer of the open file: the rows handed over that are not, or not
\* all, in the file
Buffer == Held(handed, synced)

\* the content of a file that holds the text up to q after the text up to p
\* is written to it: a fragment at its end is completed, the rest is added
Extended(content, text, q, p) ==
    Complete(content) \o SubSeq(Leading(text, p), q \div 2 + 1, Len(Leading(text, p)))

OpenFile ==
    /\ pc = "open_file"
    /\ files' = Truncate(files, FileName(ti))
    /\ handle' = FileName(ti)
    /\ handed' = <<>>
    /\ synced' = 0
    /\ written' = Append(written, FileName(ti))
    /\ wi' = 0
    /\ pc' = "write_header"
    /\ UNCHANGED <<thrown, exc, excAt, log, clicks, lookups, browser, call, swatch, run, env>>

OpenFileFails ==
    /\ pc = "open_file"
    /\ Inject
    /\ Raise("OSError", "open_file")
    /\ UNCHANGED <<thrown, defers, log, clicks, lookups, browser, call, swatch, disk, run>>

\* writer.writerow(PRODUCT_FIELDS): the header is the first text of the file
\* and does not fill the buffer
WriteHeader ==
    /\ pc = "write_header"
    /\ handed' = Append(handed, PRODUCT_FIELDS)
    /\ wi' = 1
    /\ pc' = "write_row"
    /\ UNCHANGED <<thrown, exc, excAt, log, clicks, lookups, browser, call, swatch, files, handle,
                   synced, written, run, env>>

\* writer.writerow(astuple(product)): the row joins the buffer, and when
\* that fills the buffer (the rows are of any length) its text up to some
\* point p goes to the file
WriteRow ==
    /\ pc = "write_row"
    /\ wi <= Len(products)
    /\ handed' = Append(handed, Astuple(products[wi]))
    /\ \E p \in synced..(2 * Len(handed')) :
          /\ files' = [files EXCEPT ![handle] = Extended(@, handed', synced, p)]
          /\ synced' = p
    /\ wi' = wi + 1
    /\ UNCHANGED <<thrown, pc, exc, excAt, log, clicks, lookups, browser, call, swatch, handle,
                   written, run, env>>

\* the text of a row cannot be encoded as UTF-8 (a lone surrogate):
\* writerow raises before any of the row is in the buffer; the with
\* statement closes the file, which writes the buffer out, and the
\* exception goes on. When the system fails in that close, the text up to
\* some point p is in the file, the file is closed all the same, and the
\* OSError of the close is the exception that leaves, in place of the
\* one of writerow
EncodeFails ==
    /\ pc = "write_row"
    /\ wi <= Len(products)
    /\ Inject
    /\ \/ /\ files' = [files EXCEPT ![handle] =
                          Extended(@, handed, synced, 2 * Len(handed))]
          /\ Raise("UnicodeEncodeError", pc)
       \/ /\ \E p \in synced..(2 * Len(handed)) :
                files' = [files EXCEPT ![handle] = Extended(@, handed, synced, p)]
          /\ Raise("OSError", "close_file")
    /\ handed' = <<>>
    /\ synced' = 0
    /\ handle' = "none"
    /\ UNCHANGED <<thrown, defers, log, clicks, lookups, browser, call, swatch, written, wi, run>>

\* a write raises and nothing closes the file
WriteFailsLeaks ==
    /\ pc = "write_row"
    /\ wi <= Len(products)
    /\ Inject
    /\ handed' = Append(handed, Astuple(products[wi]))
    /\ \E p \in synced..(2 * Len(handed') - 1) :
          /\ files' = [files EXCEPT ![handle] = Extended(@, handed', synced, p)]
          /\ synced' = p
    /\ Raise("OSError", pc)
    /\ UNCHANGED <<thrown, defers, log, clicks, lookups, browser, call, swatch, handle, written,
                   wi, run>>

\* the row fills the buffer and the system fails to write it out: writerow
\* raises OSError; the with statement closes the file, which tries the
\* buffer once more. When the close succeeds the exception of writerow goes
\* on; when it fails too, the OSError of the close is the exception that
\* leaves, in place of the one of writerow. In the end the text up to some
\* point p is in the file, less than all of it
WriteFails ==
    /\ pc = "write_row"
    /\ wi <= Len(products)
    /\ Inject
    /\ \E p \in synced..(2 * Len(handed) + 1) :
          files' = [files EXCEPT ![handle] =
                       Extended(@, Append(handed, Astuple(products[wi])), synced, p)]
    /\ handed' = <<>>
    /\ synced' = 0
    /\ handle' = "none"
    /\ \E at \in {pc, "close_file"} : Raise("OSError", at)
    /\ UNCHANGED <<thrown, defers, log, clicks, lookups, browser, call, swatch, written, wi, run>>

\* the with statement ends: the close writes the buffer to the file; back
\* in the for loop
CloseFile ==
    /\ pc = "write_row"
    /\ wi > Len(products)
    /\ files' = [files EXCEPT ![handle] = Extended(@, handed, synced, 2 * Len(handed))]
    /\ handed' = <<>>
    /\ synced' = 0
    /\ handle' = "none"
    /\ ti' = IF entry = "get_all_products" THEN ti + 1 ELSE ti
    /\ pc' = IF entry = "get_all_products" THEN "next_target" ELSE "done"
    /\ UNCHANGED <<thrown, exc, excAt, log, clicks, lookups, browser, call, swatch, written,
                   wi, entry, session, opened, site, seen, reads, env>>

\* the with statement ends and the system fails to write the buffer out or
\* to close: the text up to some point p is in the file, the file is closed
\* all the same, and the close raises OSError
CloseFails ==
    /\ pc = "write_row"
    /\ wi > Len(products)
    /\ Inject
    /\ \E p \in synced..(2 * Len(handed)) :
          files' = [files EXCEPT ![handle] = Extended(@, handed, synced, p)]
    /\ handed' = <<>>
    /\ synced' = 0
    /\ handle' = "none"
    /\ Raise("OSError", "close_file")
    /\ UNCHANGED <<thrown, defers, log, clicks, lookups, browser, call, swatch, written, wi, run>>

\* ------------------------------------------------- get_all_products (109-125)
\* with webdriver.Chrome() as driver
AcquireSession ==
    /\ pc = "start"
    /\ session' = "open"
    /\ opened' = opened + 1
    /\ pc' = "next_target"
    /\ UNCHANGED <<thrown, exc, excAt, log, clicks, lookups, browser, call, swatch, disk, entry, ti,
                   site, seen, reads, env>>

\* webdriver.Chrome() raises: there is no session and nothing to release
AcquireFails ==
    /\ pc = "start"
    /\ Inject
    /\ exc' = "WebDriverException"
    /\ excAt' = "start"
    /\ pc' = "aborted"
    /\ UNCHANGED <<thrown, defers, log, clicks, lookups, browser, call, swatch, disk, run>>

\* for name, info in pages_info.items(): the next target
NextTarget ==
    /\ pc = "next_target"
    /\ ti <= Len(pages_info)
    /\ url' = TargetUrl(ti)
    /\ paginate' = pages_info[ti].paginate
    /\ pc' = "get_page"
    /\ UNCHANGED <<thrown, exc, excAt, log, clicks, lookups, browser, cards, ci, card, products,
                   swatch, disk, run, env>>

\* the loop is over: the with statement quits the session
ReleaseSession ==
    /\ pc = "next_target"
    /\ ti > Len(pages_info)
    /\ session' = "closed"
    /\ pc' = "done"
    /\ UNCHANGED <<thrown, exc, excAt, log, clicks, lookups, browser, call, swatch, disk, entry,
                   opened, ti, site, seen, reads, env>>

\* an exception leaves a block that never quits the session
ReleaseOnErrorLeaks ==
    /\ pc = "unwind"
    /\ pc' = "aborted"
    /\ UNCHANGED <<thrown, exc, excAt, log, clicks, lookups, browser, call, swatch, disk, run,
                   env>>

\* an exception leaves the with statement: the session is quit, the run aborts
ReleaseOnError ==
    /\ pc = "unwind"
    /\ session' = "closed"
    /\ pc' = "aborted"
    /\ UNCHANGED <<thrown, exc, excAt, log, clicks, lookups, browser, call, swatch, disk, entry,
                   opened, ti, site, seen, reads, env>>

\* ------------------------------------------------------------ specifications
MaxCards == MaxInitCards + MaxClicks

NoCard == CardMarkup(BASE_URL, 0)

\* the state before a call, but for entry, pc, session, the arguments and the site
Fresh ==
    /\ exc = "none" /\ excAt = "none"
    /\ ti = 1
    /\ loc = BASE_URL /\ dom = <<>> /\ moreLeft = 0 /\ page = NoPage
    /\ displayed = <<>> /\ pending = <<>>
    /\ clicks = 0 /\ lookups = 0 /\ log = <<>> /\ thrown = <<>>
    /\ cards = <<>> /\ ci = 0 /\ products = <<>>
    /\ prices = <<>> /\ buttons = <<>> /\ bi = 0 /\ clicked = <<>> /\ shown = <<>>
    /\ seen = [t \in Targets |-> <<>>] /\ reads = [t \in Targets |-> 0]
    /\ handle = "none" /\ handed = <<>> /\ synced = 0 /\ written = <<>> /\ wi = 0

\* files left by an earlier run
StaleFiles == [n \in {FileName(t) : t \in Targets} |-> << <<"stale">> >>]

\* the listings of the synthetic site of a whole run: per target, the cards
\* shown at first and the clicks the load-more control is there for
SyntheticListing ==
    [p \in {TargetUrl(t).path : t \in Targets} |->
        LET t == CHOOSE u \in Targets : TargetUrl(u).path = p
        IN  [cards |-> (t - 1) % (MaxInitCards + 1), more |-> (t + 1) % (MaxClicks + 1)]]

\* a run of the script: get_all_products()
Init ==
    /\ entry = "get_all_products"
    /\ pc = "start"
    /\ session = "none" /\ opened = 0
    /\ url = BASE_URL /\ paginate = FALSE /\ card = NoCard
    /\ site = [listing |-> SyntheticListing,
               detail |-> [i \in 1..MaxCards |-> SyntheticDetail(i)]]
    /\ faults = MaxRunFailures /\ defers = MaxLate
    /\ files \in {<<>>, StaleFiles}
    /\ Fresh

PageSteps ==
    \/ PageGet \/ PageGetFails
    \/ FindMore \/ FindMoreAbsent \/ FindMoreFails
    \/ ClickMore \/ ClickMoreFails
    \/ PageSource \/ PageSourceFails
    \/ NextCard \/ PageReturn
    \/ BuildRecord

SwatchSteps ==
    \/ DetailGet \/ DetailGetFails
    \/ FindSwatches \/ FindSwatchesAbsent \/ FindSwatchesFails
    \/ ButtonsDone \/ SkipDisabled
    \/ ClickButton \/ ClickButtonFails
    \/ BrowserApply
    \/ ReadPrice \/ ReadPriceAbsent \/ ReadPriceFails

WriteSteps ==
    \/ OpenFile \/ OpenFileFails
    \/ WriteHeader \/ WriteRow \/ EncodeFails \/ WriteFails
    \/ CloseFile \/ CloseFails

RunSteps ==
    \/ AcquireSession \/ AcquireFails
    \/ NextTarget
    \/ ReleaseSession \/ ReleaseOnError

Next == RunSteps \/ PageSteps \/ SwatchSteps \/ WriteSteps

Spec == Init /\ [][Next]_vars

\* a site whose tablets listing alone has cards, and a load-more control that
\* is there for MaxClicks clicks; home shows a control too
FairListing ==
    [p \in {TargetUrl(t).path : t \in Targets} |->
        IF p = TargetUrl(4).path THEN [cards |-> MaxInitCards, more |-> MaxClicks]
        ELSE [cards |-> 0, more |-> IF p = TargetUrl(1).path THEN 1 ELSE 0]]

InitFair ==
    /\ entry = "get_all_products"
    /\ pc = "start"
    /\ session = "none" /\ opened = 0
    /\ url = BASE_URL /\ paginate = FALSE /\ card = NoCard
    /\ site = [listing |-> FairListing,
               detail |-> [i \in 1..MaxCards |-> SyntheticDetail(i)]]
    /\ faults = MaxRunFailures /\ defers = MaxLate
    /\ files = <<>>
    /\ Fresh

\* the run with the interpreter and the browser never halting on their own:
\* a statement that can be executed is executed
SpecFair == InitFair /\ [][Next]_vars /\ WF_vars(Next)

\* one call get_page_products(url, driver, paginate) on an open session
InitPage ==
    /\ entry = "get_page_products"
    /\ pc = "get_page"
    /\ session = "open" /\ opened = 1
    /\ url \in {TargetUrl(1), TargetUrl(3)}
    /\ paginate \in BOOLEAN
    /\ card = NoCard
    /\ \E n \in 0..MaxInitCards, k \in 0..MaxClicks :
          site = [listing |-> [p \in {url.path} |-> [cards |-> n, more |-> k]],
                  detail |-> [i \in 1..MaxCards |-> SyntheticDetail(i)]]
    /\ faults = MaxFailures /\ defers = MaxLate
    /\ files = <<>>
    /\ Fresh

NextPage == PageSteps \/ SwatchSteps

SpecPage == InitPage /\ [][NextPage]_vars

\* one call product_hdd_block_prices(driver, product_soup) on an open session
PriceBad == <<"$">>

\* a swatch button: its value, whether it is disabled, and the price text the
\* page displays once it was clicked
ButtonKinds ==
    [value : {"128", "256"}, disabled : {FALSE}, price : {PriceA, PriceB, PriceBad}]
    \cup [value : {"128", "256"}, disabled : {TRUE}, price : {PriceB}]

RECURSIVE SeqsUpTo(_, _)
SeqsUpTo(S, n) ==
    IF n = 0 THEN {<<>>}
    ELSE SeqsUpTo(S, n - 1) \cup
         {Append(q, x) : q \in {r \in SeqsUpTo(S, n - 1) : Len(r) = n - 1}, x \in S}

DetailPages ==
    {[group |-> FALSE, buttons |-> <<>>, hasPrice |-> h, price |-> IF h THEN PriceShown ELSE <<>>]
        : h \in BOOLEAN}
    \cup {[group |-> TRUE, buttons |-> b, hasPrice |-> h, price |-> IF h THEN PriceShown ELSE <<>>]
        : b \in SeqsUpTo(ButtonKinds, MaxButtons), h \in BOOLEAN}

InitSwatch ==
    /\ entry = "product_hdd_block_prices"
    /\ pc = "detail_get"
    /\ session = "open" /\ opened = 1
    /\ url = BASE_URL /\ paginate = FALSE
    /\ card = CardMarkup(TargetUrl(3), 1)
    /\ \E p \in DetailPages :
          site = [listing |-> [q \in {} |-> 0], detail |-> [i \in {1} |-> p]]
    /\ faults = MaxFailures /\ defers = MaxLate
    /\ files = <<>>
    /\ Fresh

SpecSwatch == InitSwatch /\ [][SwatchSteps]_vars

\* one call write_products_to_csv(products, filename), filename that of target ti
RecordKinds ==
    {ProductOf(CardMarkup(TargetUrl(3), i), hdd) : i \in 1..2, hdd \in {<<>>, << <<"128", 100>> >>}}

InitWrite ==
    /\ entry = "write_products_to_csv"
    /\ pc = "open_file"
    /\ session = "none" /\ opened = 0
    /\ url = BASE_URL /\ paginate = FALSE /\ card = NoCard
    /\ site = [listing |-> [q \in {} |-> 0], detail |-> [i \in {} |-> NoPage]]
    /\ faults = MaxFailures /\ defers = MaxLate
    /\ files \in {<<>>, StaleFiles}
    /\ exc = "none" /\ excAt = "none"
    /\ ti \in {1, Len(pages_info)}
    /\ loc = BASE_URL /\ dom = <<>> /\ moreLeft = 0 /\ page = NoPage
    /\ displayed = <<>> /\ pending = <<>>
    /\ clicks = 0 /\ lookups = 0 /\ log = <<>> /\ thrown = <<>>
    /\ cards = <<>> /\ ci = 0
    /\ products \in SeqsUpTo(RecordKinds, MaxRecords)
    /\ prices = <<>> /\ buttons = <<>> /\ bi = 0 /\ clicked = <<>> /\ shown = <<>>
    /\ seen = [t \in Targets |-> <<>>] /\ reads = [t \in Targets |-> 0]
    /\ handle = "none" /\ handed = <<>> /\ synced = 0 /\ written = <<>> /\ wi = 0

SpecWrite == InitWrite /\ [][WriteSteps]_vars

\* ------------------------------------------------------------------ properties
Last(q) == q[Len(q)]

Count(q, x) == Cardinality({i \in 1..Len(q) : q[i] = x})

CountLevel(q, level) == Cardinality({i \in 1..Len(q) : q[i][1] = level})

InLoop == pc \in {"find_more", "click_more"}

\* the clicks the load-more control of the listing at url is there for
Offered == site.listing[url.path].more

\* C1: get_page_products(paginate=True) on a listing whose load-more control
\* is there for exactly K clicks, with no failure injected: never more than K
\* clicks, nothing raised, and once the loop is left there were exactly K
\* clicks and K + 1 lookups, the only exception was the final not-found, and
\* the log holds info records only.
C1_ExactlyKClicks ==
    (entry = "get_page_products" /\ paginate /\ faults = MaxFailures) =>
        /\ exc = "none" /\ pc # "raised"
        /\ clicks <= Offered
        /\ (pc # "get_page" /\ ~InLoop) =>
              /\ clicks = Offered
              /\ lookups = Offered + 1
              /\ thrown = <<"NoSuchElementException">>
              /\ \A i \in 1..Len(log) : log[i][1] = "info"
              /\ Last(log) = <<"info", "NoSuchElementException">>

C1_Witness ==
    /\ entry = "get_page_products" /\ paginate /\ faults = MaxFailures
    /\ pc = "page_source"
    /\ Offered = 2 /\ clicks = 2 /\ lookups = 3
    /\ Len(dom) = site.listing[url.path].cards + 2

\* C2: after a TimeoutException in the pagination loop an error is logged
\* and the loop is over: the script is at no further lookup or click.
C2_TimeoutStopsPagination ==
    (thrown # <<>> /\ Last(thrown) = "TimeoutException") =>
        /\ Last(log) = <<"error", "TimeoutException">>
        /\ ~InLoop

\* C3: every interception of a click logs one warning and sends the loop back
\* to the lookup with the control and the click count untouched; the log
\* holds as many warnings as there were interceptions.
C3_InterceptedRetries ==
    [][/\ CountLevel(log', "warning") = Count(thrown', "ElementClickInterceptedException")
       /\ (thrown' # thrown /\ thrown' # <<>>
              /\ Last(thrown') = "ElementClickInterceptedException") =>
             /\ log' = Append(log, <<"warning", "ElementClickInterceptedException">>)
             /\ pc = "click_more" /\ pc' = "find_more"
             /\ exc' = "none"
             /\ clicks' = clicks /\ moreLeft' = moreLeft /\ dom' = dom]_vars

\* an interception on the first attempt, then a successful click
C3_Witness ==
    /\ entry = "get_page_products"
    /\ thrown = <<"ElementClickInterceptedException">>
    /\ lookups = 2 /\ clicks = 1
    /\ CountLevel(log, "warning") = 1 /\ CountLevel(log, "error") = 0
    /\ pc = "find_more"

\* C4: after an ElementNotInteractableException in the pagination loop a
\* warning is logged and the loop goes on.
C4_NotInteractableRetries ==
    (thrown # <<>> /\ Last(thrown) = "ElementNotInteractableException") =>
        /\ Last(log)[1] = "warning"
        /\ InLoop

\* C5: a step taken inside the pagination loop stays in the loop or leaves it
\* for the read of the page content, and leaves no exception behind; and the
\* read of the page content, unless it fails itself, takes the cards of the
\* page shown and goes on to parse them.
C5_LoopFailuresContained ==
    [][/\ InLoop => (pc' \in {"find_more", "click_more", "page_source"} /\ exc' = "none")
       /\ (pc = "page_source" /\ pc' # pc /\ exc' = "none") =>
             (cards' = dom /\ ci' = 1 /\ pc' = "next_card")]_vars

\* the page was read after an exception that is no WebDriverException
C5_Witness ==
    /\ entry = "get_page_products"
    /\ thrown # <<>> /\ Last(thrown) = "ValueError"
    /\ pc = "next_card" /\ cards = dom /\ exc = "none"

\* the detail page of the product of the card at hand, as the site serves it
Served == site.detail[card.href.item]

EnabledAt(bs) == {i \in 1..Len(bs) : ~bs[i].disabled}

DistinctEnabled(bs) ==
    \A i, j \in EnabledAt(bs) : i # j => bs[i].value # bs[j].value

\* C6: product_hdd_block_prices clicks enabled buttons only, in document
\* order, and reads the price once after each click; when it returns from a
\* page with a swatch group, a price element and N enabled buttons of pairwise
\* distinct values, the dict has exactly N items, its keys are the values of
\* the enabled buttons, every enabled button was clicked, and the item of a
\* button holds the parsed text that the price element showed at the read
\* following its click (the button's own price when no update was pending).
C6_OneEntryPerEnabledSwatch ==
    entry = "product_hdd_block_prices" =>
        /\ \A j \in 1..Len(clicked) : ~Served.buttons[clicked[j]].disabled
        /\ \A j \in 1..(Len(clicked) - 1) : clicked[j] < clicked[j + 1]
        /\ Len(shown) <= Len(clicked) /\ Len(clicked) <= Len(shown) + 1
        /\ (pc = "done" /\ Served.group /\ Served.hasPrice /\ DistinctEnabled(Served.buttons)) =>
              /\ Len(prices) = Cardinality(EnabledAt(Served.buttons))
              /\ DictKeys(prices) = {Served.buttons[i].value : i \in EnabledAt(Served.buttons)}
              /\ {clicked[j] : j \in 1..Len(clicked)} = EnabledAt(Served.buttons)
              /\ Len(shown) = Len(clicked)
              /\ \A j \in 1..Len(shown) :
                    /\ shown[j][1] = clicked[j]
                    /\ DictGet(prices, Served.buttons[clicked[j]].value)
                          = ParsePrice(shown[j][2]).val
                    /\ ~shown[j][3] => shown[j][2] = Served.buttons[clicked[j]].price

\* two enabled buttons of distinct values and prices around a disabled one
C6_Witness ==
    /\ entry = "product_hdd_block_prices" /\ pc = "done"
    /\ Served.group /\ Served.hasPrice
    /\ Len(Served.buttons) = 3 /\ EnabledAt(Served.buttons) = {1, 3}
    /\ Served.buttons[1].value # Served.buttons[3].value
    /\ Served.buttons[1].price # Served.buttons[3].price
    /\ Len(prices) = 2 /\ clicked = <<1, 3>>

\* C7: no price read sees the price of before the click: the text read after
\* a click is the price that this click makes the page display.
C7_NeverStalePrice ==
    \A j \in 1..Len(shown) : shown[j][2] = buttons[shown[j][1]].price

\* C8: on a detail page without swatch group, with no failure injected,
\* nothing is clicked, nothing raised, nothing logged, the dict stays empty,
\* and the record built from the returned dict has {"hdd_prices": {}}.
C8_NoSwatchGroupEmpty ==
    (entry = "product_hdd_block_prices" /\ ~Served.group /\ faults = MaxFailures) =>
        /\ clicked = <<>> /\ prices = <<>>
        /\ exc = "none" /\ pc \in {"detail_get", "find_swatches", "done"}
        /\ log = <<>>
        /\ pc = "done" =>
              ProductOf(card, prices).additional_info = [hdd_prices |-> <<>>]

C8_Witness ==
    /\ entry = "product_hdd_block_prices" /\ pc = "done"
    /\ ~Served.group /\ faults = MaxFailures
    /\ loc = Urljoin(BASE_URL, card.href)
    /\ prices = <<>>

\* C9: when the swatch group is there and a swatch was clicked but the page
\* has no price element, product_hdd_block_prices does not return a dict.
C9_PriceNotFoundPropagates ==
    (entry = "product_hdd_block_prices" /\ page.group /\ ~page.hasPrice /\ clicked # <<>>) =>
        pc # "done"

FileNames ==
    <<"home.csv", "computers.csv", "laptops.csv", "tablets.csv", "phones.csv", "touch.csv">>

\* C10: a run that ends without an exception has opened exactly the six
\* files <target>.csv in the order of the table and closed them; every file
\* holds the header row and then one row per card that the listing showed
\* when its content was read, in card order; with no failure injected that
\* is every card of the listing after all its load-more clicks.
C10_SixFilesRowPerCard ==
    pc = "done" =>
        /\ exc = "none"
        /\ written = FileNames
        /\ DOMAIN files = {FileNames[t] : t \in Targets}
        /\ handle = "none"
        /\ \A t \in Targets :
              /\ Len(files[FileNames[t]]) = 1 + Len(seen[t])
              /\ files[FileNames[t]][1] = PRODUCT_FIELDS
              /\ \A i \in 1..Len(seen[t]) :
                    /\ files[FileNames[t]][i + 1][1] = seen[t][i].title
                    /\ seen[t][i] = CardMarkup(TargetUrl(t), i)
              /\ faults = MaxRunFailures =>
                    Len(seen[t]) = SyntheticListing[TargetUrl(t).path].cards
                        + (IF pages_info[t].paginate
                           THEN SyntheticListing[TargetUrl(t).path].more ELSE 0)

\* a run over files of an earlier run, ending with a header-only file for
\* home and a header and three rows for tablets
C10_Witness ==
    /\ pc = "done" /\ exc = "none" /\ faults = MaxRunFailures
    /\ Len(files["home.csv"]) = 1
    /\ Len(files["tablets.csv"]) = 4
    /\ Len(written) = 6

\* the rows of a file written from the records q: the header, then per record
\* its six field values in the order of the header
RowsOf(q) ==
    << <<"title", "description", "price", "rating", "num_of_reviews", "additional_info">> >>
    \o [i \in 1..Len(q) |->
          <<q[i].title, q[i].description, q[i].price, q[i].rating, q[i].num_of_reviews,
            q[i].additional_info>>]

\* C11: when write_products_to_csv(products, filename) returns, the file
\* holds the header row and then one row per record, in input order (the
\* header alone for no records), whatever the file held before; during the
\* call the rows in the file and in its buffer together are the header and
\* the rows handed over so far, and no other file changes.
C11_HeaderThenRows ==
    entry = "write_products_to_csv" =>
        /\ pc = "done" => files[FileNames[ti]] = RowsOf(products)
        /\ pc \in {"write_header", "write_row"} =>
              /\ handed = SubSeq(RowsOf(products), 1, wi)
              /\ files[FileNames[ti]] = Leading(handed, synced)
              /\ Complete(files[FileNames[ti]]) \o Buffer = handed
        /\ \A t \in Targets \ {ti} :
              FileNames[t] \in DOMAIN files => files[FileNames[t]] = StaleFiles[FileNames[t]]

\* two records written over a file of an earlier run
C11_Witness ==
    /\ entry = "write_products_to_csv" /\ pc = "done"
    /\ Len(products) = 2 /\ products[1] # products[2]
    /\ DOMAIN files = DOMAIN StaleFiles
    /\ Len(files[FileNames[ti]]) = 3

\* the statements of loading and parsing a target
Loading ==
    {"get_page", "find_more", "click_more", "page_source", "detail_get", "find_swatches",
     "next_button", "read_price", "build_record"}

\* C12: once loading or parsing target ti has raised, the run is unwinding or
\* over; exactly the files of the targets before ti were opened, in order,
\* each is closed and complete (header and one row per card read); the files
\* of target ti and of every later target are absent or still hold what an
\* earlier run left.
C12_NoErrorBoundary ==
    (entry = "get_all_products" /\ exc # "none" /\ excAt \in Loading) =>
        /\ pc \in {"unwind", "aborted"}
        /\ written = SubSeq(FileNames, 1, ti - 1)
        /\ handle = "none"
        /\ \A t \in 1..(ti - 1) :
              /\ Len(files[FileNames[t]]) = 1 + Len(seen[t])
              /\ files[FileNames[t]][1] = PRODUCT_FIELDS
              /\ \A i \in 1..Len(seen[t]) :
                    files[FileNames[t]][i + 1][1] = seen[t][i].title
        /\ \A t \in ti..Len(pages_info) :
              FileNames[t] \in DOMAIN files => files[FileNames[t]] = StaleFiles[FileNames[t]]

\* the fourth target fails on a detail page after a card of it was parsed
C12_Witness ==
    /\ entry = "get_all_products" /\ pc = "aborted"
    /\ ti = 4 /\ excAt \in {"detail_get", "find_swatches", "next_button", "read_price"}
    /\ products # <<>>
    /\ written = <<"home.csv", "computers.csv", "laptops.csv">>
    /\ "tablets.csv" \notin DOMAIN files

\* C13: a run never acquires a second session; every navigation, lookup and
\* click happens while the one session is open; a run that got its session
\* has closed it when it is over, on completion and after an exception alike
\* (a run whose webdriver.Chrome() itself raised never had one); and a
\* closed session stays closed.
C13_OneSessionReleased ==
    [][/\ opened' <= 1
       /\ (browser' # browser \/ lookups' # lookups \/ clicks' # clicks \/ clicked' # clicked)
             => (session = "open" /\ opened = 1)
       /\ pc' = "done" => (opened' = 1 /\ session' = "closed")
       /\ (pc' = "aborted" /\ excAt' # "start") => (opened' = 1 /\ session' = "closed")
       /\ session = "closed" => session' = "closed"
       /\ (session' = "open") = (pc' \notin {"start", "done", "aborted"})]_vars

\* runs over after a row could not be written, and after a click failed
C13_Witness ==
    /\ entry = "get_all_products" /\ pc = "aborted" /\ session = "closed" /\ opened = 1
    /\ excAt \in {"write_row", "next_button"}
    /\ loc # BASE_URL

Parsing ==
    {"next_card", "detail_get", "find_swatches", "next_button", "read_price", "build_record"}

\* C14: the content of a target's listing is read at most once, by the
\* statement after the pagination loop, with the listing still shown; no
\* detail page is navigated to before that read; the cards taken by the read
\* stay as they are while they are parsed, whatever page the session shows;
\* every record is built from the card at its position in that snapshot, and
\* the records returned are one per card of the snapshot, in its order.
C14_OneSnapshotPerTarget ==
    [][/\ \A t \in Targets : reads'[t] <= 1
       /\ reads' # reads =>
             /\ pc = "page_source" /\ loc = url /\ thrown' = thrown
             /\ reads' = [reads EXCEPT ![ti] = 1]
             /\ seen' = [seen EXCEPT ![ti] = dom] /\ cards' = dom
       /\ (loc' # loc /\ loc'.item # 0) => (reads[ti] = 1 /\ cards = seen[ti] /\ loc' # url)
       /\ pc \in Parsing => (cards' = cards /\ cards = seen[ti] /\ seen' = seen)
       /\ products' # products =>
             \/ products' = <<>> /\ reads' # reads
             \/ /\ pc = "build_record"
                /\ Len(products') = ci /\ ci' = ci + 1
                /\ products' = Append(products, ProductOf(seen[ti][ci], prices))
       /\ (pc = "next_card" /\ pc' \notin Parsing) =>
             /\ reads[ti] = 1
             /\ Len(products) = Len(seen[ti])
             /\ \A i \in 1..Len(products) : products[i].title = seen[ti][i].title]_vars

\* the three cards of tablets are parsed; the session is on the last detail page
C14_Witness ==
    /\ entry = "get_all_products" /\ ti = 4 /\ pc = "open_file"
    /\ reads[4] = 1 /\ Len(seen[4]) = 3 /\ Len(products) = 3
    /\ loc.item = 3 /\ dom = <<>>

Paginated == {"laptops", "tablets", "touch"}

\* C15: with paginate false the step after the navigation is the read of the
\* page content, with the listing shown; from there on the call has made no
\* lookup and no click of the load-more control and nothing was raised or
\* logged for the loop; a lookup or click happens, and the script is in the
\* loop, only with paginate true; and in a run paginate is true exactly for
\* laptops, tablets and touch.
C15_NoPaginationWhenFalse ==
    [][/\ (pc = "get_page" /\ ~paginate /\ pc' # pc /\ exc' = "none") =>
             (pc' = "page_source" /\ loc' = url /\ log' = Append(log, <<"info", "get_page">>))
       /\ (~paginate' /\ pc' \in {"page_source"} \cup Parsing) =>
             (lookups' = 0 /\ clicks' = 0 /\ thrown' = <<>> /\ Last(log')[1] = "info")
       /\ (lookups' > lookups \/ clicks' > clicks \/ pc' \in {"find_more", "click_more"}) =>
             (paginate /\ paginate')
       /\ (entry = "get_all_products"
              /\ pc' \in {"get_page", "find_more", "click_more", "page_source"} \cup Parsing) =>
             paginate' = (pages_info[ti'].name \in Paginated)]_vars

\* home shows a load-more control, and its content is read with no lookup made
C15_Witness ==
    /\ entry = "get_all_products" /\ ti = 1 /\ ~paginate
    /\ pc = "page_source" /\ loc = url
    /\ moreLeft > 0 /\ lookups = 0 /\ clicks = 0

\* the values of the enabled buttons of bs
EnabledValues(bs) == {bs[i].value : i \in EnabledAt(bs)}

\* the last price read that followed a click of a button of value v
LastReadOf(v) ==
    CHOOSE j \in 1..Len(shown) :
        /\ buttons[shown[j][1]].value = v
        /\ \A k \in (j + 1)..Len(shown) : buttons[shown[k][1]].value # v

\* C16: when product_hdd_block_prices returns from a page with a swatch group
\* and a price element, whether or not enabled buttons share a value: every
\* enabled button was clicked once, the dict has one item per distinct value
\* of the enabled buttons, and the item of a value holds the parsed text of
\* the last price read that followed a click of a button of that value.
C16_LastWriteWins ==
    (entry = "product_hdd_block_prices" /\ pc = "done" /\ Served.group /\ Served.hasPrice) =>
        /\ {clicked[j] : j \in 1..Len(clicked)} = EnabledAt(Served.buttons)
        /\ Len(clicked) = Cardinality(EnabledAt(Served.buttons))
        /\ Len(shown) = Len(clicked)
        /\ Len(prices) = Cardinality(EnabledValues(Served.buttons))
        /\ DictKeys(prices) = EnabledValues(Served.buttons)
        /\ \A v \in DictKeys(prices) :
              DictGet(prices, v) = ParsePrice(shown[LastReadOf(v)][2]).val

\* two enabled buttons of the same value and different prices, both clicked
C16_Witness ==
    /\ entry = "product_hdd_block_prices" /\ pc = "done"
    /\ Served.group /\ Served.hasPrice
    /\ Len(Served.buttons) >= 2 /\ {1, 2} \subseteq EnabledAt(Served.buttons)
    /\ Served.buttons[1].value = Served.buttons[2].value
    /\ Served.buttons[1].price # Served.buttons[2].price
    /\ clicked = <<1, 2>> /\ Len(prices) = 1
    /\ shown[2][2] = Served.buttons[2].price
    /\ prices[1][2] = ParsePrice(Served.buttons[2].price).val

\* C17 as stated: when write_products_to_csv has raised after it opened
\* the file, the file holds the header and the rows handed to the writer
\* before the failure, all of them and nothing else.
C17_RowsBeforeFailureKept ==
    (entry = "write_products_to_csv" /\ pc = "raised" /\ excAt # "open_file") =>
        files[FileNames[ti]] = SubSeq(RowsOf(products), 1, wi)

\* C17: the file of write_products_to_csv is open exactly while the header
\* and the rows are written; it is closed, with nothing left in its buffer,
\* when the function returns and when it raises, and an exception leaves
\* the function: the one of the row write, or the one of the close when the
\* close failed, after the last row or after a row write that raised. The
\* header write does not raise. When the exception of a row that cannot be
\* encoded leaves, the file holds the header and the rows before that row;
\* when the system failed to write, in writing a row or in the close, the
\* file holds a leading part of the text handed over until then, which may
\* be nothing and may end inside a row. Nothing of what the file held
\* earlier is left in either case.
C17_FileClosedOnEveryExit ==
    entry = "write_products_to_csv" =>
        /\ (handle # "none") = (pc \in {"write_header", "write_row"})
        /\ handle # "none" => handle = FileNames[ti]
        /\ handle = "none" => (handed = <<>> /\ synced = 0)
        /\ pc = "done" => (handle = "none" /\ exc = "none")
        /\ pc = "raised" =>
              /\ handle = "none"
              /\ <<exc, excAt>> \in {<<"OSError", "open_file">>, <<"OSError", "write_row">>,
                                     <<"UnicodeEncodeError", "write_row">>,
                                     <<"OSError", "close_file">>}
              /\ excAt # "open_file" => written = <<FileNames[ti]>>
              /\ exc = "UnicodeEncodeError" =>
                    files[FileNames[ti]] = SubSeq(RowsOf(products), 1, wi)
              /\ (exc = "OSError" /\ excAt = "write_row") =>
                    \E p \in 0..(2 * wi + 1) :
                        files[FileNames[ti]] = Leading(RowsOf(products), p)
              /\ excAt = "close_file" =>
                    /\ exc = "OSError"
                    /\ wi \in 1..(Len(products) + 1)
                    /\ \E p \in 0..(IF wi <= Len(products) THEN 2 * wi + 1 ELSE 2 * wi) :
                          files[FileNames[ti]] = Leading(RowsOf(products), p)

\* the close fails after two rows, over a file of an earlier run, and
\* leaves the header and a part of the first row
C17_Witness ==
    /\ entry = "write_products_to_csv" /\ pc = "raised" /\ exc = "OSError"
    /\ excAt = "close_file" /\ handle = "none"
    /\ Len(products) = 2 /\ wi = 3
    /\ DOMAIN files = DOMAIN StaleFiles
    /\ files[FileNames[ti]] = Leading(RowsOf(products), 3)

\* C18: with the load-more control there for finitely many clicks and
\* finitely many failures, the script that is in the pagination loop
\* eventually is out of it, and the run eventually is over with no session
\* open; the loop is left only by an exception raised inside it: no count of
\* lookups or clicks ends it.
C18_LoopAndRunTerminate ==
    /\ InLoop ~> ~InLoop
    /\ <>(pc \in {"done", "aborted"} /\ session # "open")
    /\ [][(InLoop /\ ~InLoop') => (thrown' # thrown /\ Len(thrown') = Len(thrown) + 1)]_vars

\* the run is over after an intercepted click was retried
C18_Witness ==
    /\ entry = "get_all_products" /\ pc = "done" /\ session = "closed"
    /\ CountLevel(log, "warning") = 1
    /\ Len(written) = Len(pages_info)

\* C19: a failure of the navigation to the listing or of the read of the
\* page content, with paginate true or false and whatever its class, is not
\* handled by get_page_products: no error is logged for it and nothing is
\* parsed, the exception leaves the function from that statement, and the
\* run unwinds and aborts with the target's file not opened: the file is
\* absent or as an earlier run left it.
C19_OutsideLoopNotCaught ==
    [][/\ (pc \in {"get_page", "page_source"} /\ faults' < faults) =>
             /\ exc' \in NavFailures /\ excAt' = pc
             /\ pc' = "unwind"
             /\ CountLevel(log', "error") = CountLevel(log, "error")
             /\ CountLevel(log', "warning") = CountLevel(log, "warning")
             /\ UNCHANGED <<cards, products, disk, seen, reads, ti>>
       /\ excAt' \in {"get_page", "page_source"} =>
             /\ pc' \in {"unwind", "aborted"}
             /\ handle' = "none"
             /\ \A i \in 1..Len(written') : written'[i] # FileNames[ti']
             /\ FileNames[ti'] \in DOMAIN files' =>
                   files'[FileNames[ti']] = StaleFiles[FileNames[ti']]]_vars

\* the run is aborted by the read of the laptops listing, after the loop
\* clicked once and ended, with the files of home and computers written
C19_Witness ==
    /\ entry = "get_all_products" /\ pc = "aborted" /\ session = "closed"
    /\ excAt = "page_source" /\ exc = "TimeoutException"
    /\ paginate /\ ti = 3 /\ clicks = 1
    /\ Last(thrown) = "NoSuchElementException"
    /\ written = <<"home.csv", "computers.csv">>
    /\ "laptops.csv" \notin DOMAIN files

====
